---- MODULE Spec2Model ----
(***************************************************************************)
(* pi_crypto, module `signature`: the ECDSA-secp256k1 signer and the RSA   *)
(* signer with its six padding/hash variants.                              *)
(*                                                                         *)
(* The two signers are thin wrappers: the elliptic-curve and RSA           *)
(* arithmetic lives in the secp256k1 and ring crates.  The wrappers decide *)
(* which inputs abort the call (unwrap), which come back as a boolean      *)
(* (is_ok), which scheme a padding variant selects on each path, and what  *)
(* is handed back when the backend reports an error.                       *)
(*                                                                         *)
(* The backends are modelled at the level of bytes.  For secp256k1 the     *)
(* keys, public points and signatures are the curve's own values for       *)
(* three secret keys and three digests (among them the key and digest of   *)
(* tests::test_secp256k1), DER and SEC1 are encoded and parsed as the      *)
(* library does, and a signature verifies exactly when it is the one the   *)
(* backend makes of that digest under that key.  For RSA the keys are      *)
(* synthetic 2048-bit moduli, the private and public operations are a      *)
(* keyed permutation and its inverse, and verification recomputes the      *)
(* encoded message and compares, as the padding schemes do.                *)
(***************************************************************************)
EXTENDS Integers, Sequences, FiniteSets

VARIABLES
  secp,      \* the ECDSASecp256k1 signer: [ctx]
  rsa,       \* the Rsa signer: [ctx], ctx the parsed key pair
  built,     \* the two signers as their constructors returned them
  produced,  \* the last completed sign call: its arguments, by name, and
             \* whether it returned
  checked,   \* the last completed verify call made after it: its arguments,
             \* by name, and its outcome; or NoCall
  pc,        \* per thread: the call in progress on the shared signers
  local,     \* per thread: what the call in progress has read so far
  ret        \* per thread: the outcome of the thread's last completed call

vars == <<secp, rsa, built, produced, checked, pc, local, ret>>

(***************************************************************************)
(* Bytes and byte strings.                                                 *)
(***************************************************************************)
Rep(b, n) == [i \in 1..n |-> b]

Pow2(k) == CASE k = 0 -> 1 [] k = 1 -> 2 [] k = 2 -> 4 [] k = 3 -> 8
             [] k = 4 -> 16 [] k = 5 -> 32 [] k = 6 -> 64 [] k = 7 -> 128

BitSet(b, k) == (b \div Pow2(k)) % 2 = 1

\* The copy of byte string s with bit k of byte i inverted.
FlipBit(s, i, k) ==
  [s EXCEPT ![i] = IF BitSet(s[i], k) THEN s[i] - Pow2(k) ELSE s[i] + Pow2(k)]

\* Big-endian comparison of two byte strings of one length.
LessThan(a, b) ==
  \E i \in 1..Len(a) : a[i] < b[i] /\ \A j \in 1..(i - 1) : a[j] = b[j]

(***************************************************************************)
(* The secp256k1 backend, as the ECDSA signer uses it.                     *)
(***************************************************************************)
MessageSize == 32
SecretKeySize == 32
CompressedPublicKeySize == 33
UncompressedPublicKeySize == 65

\* Rust's Result, as the backends return it.
RustOk(v) == [ok |-> TRUE, v |-> v]
RustErr == [ok |-> FALSE]

\* What a wrapper call hands its caller: a value, or a panic (a failed unwrap).
Returned(v) == [status |-> "returned", value |-> v]
Panicked == [status |-> "panicked"]
NoCall == [op |-> "none"]

\* The order n of the curve group and the prime p of its field, big-endian.
CurveOrder ==
  << 255, 255, 255, 255, 255, 255, 255, 255, 255, 255, 255, 255, 255, 255, 255, 254,
     186, 174, 220, 230, 175, 72, 160, 59, 191, 210, 94, 140, 208, 54, 65, 65 >>

FieldPrime ==
  << 255, 255, 255, 255, 255, 255, 255, 255, 255, 255, 255, 255, 255, 255, 255, 255,
     255, 255, 255, 255, 255, 255, 255, 255, 255, 255, 255, 254, 255, 255, 252, 47 >>

\* Secret scalars: the key of tests::test_secp256k1, and two more.
SecretKeyTable ==
  << << 22, 52, 111, 209, 218, 35, 111, 129, 2, 2, 133, 58, 61, 197, 5, 217,
        43, 107, 133, 151, 193, 95, 212, 99, 228, 228, 73, 77, 143, 198, 167, 8 >>,
     << 1, 1, 1, 1, 1, 1, 1, 1, 1, 1, 1, 1, 1, 1, 1, 1,
        1, 1, 1, 1, 1, 1, 1, 1, 1, 1, 1, 1, 1, 1, 1, 1 >>,
     << 2, 2, 2, 2, 2, 2, 2, 2, 2, 2, 2, 2, 2, 2, 2, 2,
        2, 2, 2, 2, 2, 2, 2, 2, 2, 2, 2, 2, 2, 2, 2, 2 >> >>

\* PointTable[i] is the public point SecretKeyTable[i] * G; PointTable[1] is
\* the public key of tests::test_secp256k1.
PointTable ==
  << [x |-> << 79, 189, 73, 148, 182, 193, 213, 121, 0, 0, 250, 15, 223, 227, 175, 177,
             245, 243, 210, 164, 231, 140, 61, 170, 196, 201, 23, 109, 2, 12, 92, 168 >>,
      y |-> << 92, 154, 104, 49, 84, 196, 61, 12, 228, 234, 10, 67, 195, 134, 56, 117,
             226, 124, 14, 164, 160, 135, 221, 94, 246, 97, 93, 65, 252, 156, 91, 64 >>],
     [x |-> << 27, 132, 197, 86, 123, 18, 100, 64, 153, 93, 62, 213, 170, 186, 5, 101,
             215, 30, 24, 52, 96, 72, 25, 255, 156, 23, 245, 233, 213, 221, 7, 143 >>,
      y |-> << 112, 190, 175, 143, 88, 139, 84, 21, 7, 254, 214, 166, 66, 197, 171, 66,
             223, 223, 129, 32, 167, 246, 57, 222, 81, 34, 212, 122, 105, 168, 232, 209 >>],
     [x |-> << 77, 75, 108, 209, 54, 16, 50, 202, 155, 210, 174, 185, 217, 0, 170, 77,
             69, 217, 234, 216, 10, 201, 66, 51, 116, 196, 81, 167, 37, 77, 7, 102 >>,
      y |-> << 42, 62, 173, 162, 208, 254, 32, 139, 109, 37, 124, 235, 15, 6, 66, 132,
             102, 46, 133, 127, 87, 182, 107, 84, 193, 152, 189, 49, 13, 237, 54, 208 >>] >>

\* Digests: the message of tests::test_secp256k1 (32 bytes of 0xcd), and two more.
DigestTable == << Rep(205, 32), Rep(17, 32), Rep(171, 32) >>

\* SignatureTable[i][j] is the (r, s) the backend signs DigestTable[j] with
\* under SecretKeyTable[i]: its nonce is the RFC 6979 one, so the signature
\* is a function of key and digest, and s is in the lower half of the order.
SignatureTable ==
  <<
     << [r |-> << 142, 83, 116, 84, 108, 244, 228, 150, 81, 53, 128, 92, 213, 93, 131, 145,
                148, 145, 35, 89, 122, 203, 232, 218, 5, 111, 233, 178, 129, 76, 128, 211 >>,
         s |-> << 85, 214, 222, 212, 203, 23, 208, 213, 32, 90, 218, 21, 60, 18, 145, 114,
                99, 197, 27, 233, 100, 60, 173, 68, 69, 144, 240, 238, 121, 77, 32, 147 >>],
        [r |-> << 57, 155, 225, 129, 112, 149, 64, 133, 115, 52, 39, 66, 147, 117, 119, 79,
                237, 96, 193, 226, 4, 116, 158, 56, 110, 59, 199, 163, 178, 148, 232, 203 >>,
         s |-> << 52, 29, 157, 137, 156, 76, 173, 73, 78, 136, 205, 15, 88, 15, 13, 192,
                129, 109, 231, 87, 91, 11, 240, 20, 145, 181, 202, 181, 141, 99, 166, 198 >>],
        [r |-> << 164, 22, 9, 183, 56, 67, 3, 158, 245, 173, 15, 224, 89, 91, 241, 118,
                162, 136, 97, 191, 217, 137, 82, 159, 99, 226, 144, 194, 44, 117, 242, 173 >>,
         s |-> << 115, 22, 136, 130, 125, 33, 9, 25, 159, 245, 112, 76, 49, 94, 3, 194,
                2, 222, 110, 52, 109, 177, 240, 49, 99, 135, 103, 61, 52, 86, 234, 186 >>] >>,
     << [r |-> << 1, 149, 120, 211, 182, 188, 131, 22, 161, 189, 136, 87, 55, 138, 253, 84,
                251, 151, 228, 214, 40, 11, 100, 116, 136, 159, 189, 166, 76, 194, 186, 190 >>,
         s |-> << 47, 155, 13, 30, 163, 160, 10, 117, 92, 178, 250, 57, 154, 186, 183, 132,
                100, 125, 68, 97, 250, 52, 144, 62, 253, 162, 26, 152, 176, 111, 2, 22 >>],
        [r |-> << 245, 229, 172, 115, 233, 1, 18, 29, 196, 110, 53, 72, 93, 173, 242, 39,
                61, 117, 170, 32, 18, 88, 236, 179, 190, 49, 246, 65, 39, 179, 132, 105 >>,
         s |-> << 35, 48, 159, 148, 129, 217, 190, 124, 111, 242, 20, 153, 240, 20, 175, 170,
                84, 227, 155, 24, 205, 241, 6, 204, 154, 130, 79, 27, 251, 241, 20, 57 >>],
        [r |-> << 153, 124, 97, 170, 16, 226, 51, 12, 7, 109, 107, 167, 171, 202, 30, 113,
                112, 58, 143, 3, 146, 145, 219, 16, 58, 98, 224, 133, 201, 178, 207, 13 >>,
         s |-> << 63, 126, 49, 236, 144, 40, 34, 154, 204, 131, 9, 63, 187, 114, 47, 167,
                0, 253, 110, 78, 161, 93, 88, 77, 241, 191, 56, 78, 176, 5, 30, 13 >>] >>,
     << [r |-> << 252, 200, 17, 140, 29, 145, 137, 160, 11, 12, 110, 252, 252, 182, 20, 122,
                215, 10, 226, 22, 169, 35, 143, 186, 97, 11, 209, 200, 61, 159, 156, 68 >>,
         s |-> << 32, 53, 76, 189, 168, 239, 185, 166, 79, 234, 180, 38, 216, 2, 252, 11,
                234, 55, 218, 87, 162, 44, 107, 2, 197, 243, 10, 101, 169, 129, 173, 150 >>],
        [r |-> << 151, 175, 152, 157, 209, 139, 203, 217, 2, 124, 27, 87, 193, 111, 122, 148,
                63, 36, 37, 126, 77, 182, 182, 53, 117, 91, 137, 67, 34, 94, 101, 25 >>,
         s |-> << 98, 248, 247, 127, 165, 21, 168, 199, 208, 161, 2, 5, 133, 131, 142, 42,
                27, 141, 215, 104, 139, 248, 158, 139, 195, 45, 65, 92, 64, 223, 182, 1 >>],
        [r |-> << 196, 253, 152, 227, 133, 82, 226, 154, 12, 148, 157, 225, 153, 145, 103, 204,
                24, 145, 255, 131, 94, 119, 167, 200, 136, 229, 245, 32, 249, 133, 246, 104 >>,
         s |-> << 117, 228, 218, 102, 244, 231, 22, 204, 40, 21, 62, 18, 190, 117, 222, 143,
                180, 170, 155, 213, 108, 27, 31, 35, 158, 72, 242, 87, 93, 165, 146, 189 >>] >>
  >>

\* p - y, byte by byte from the least significant end (borrow b); the bytes of
\* y at positions > i are done.
RECURSIVE FieldSub(_, _, _, _)
FieldSub(y, i, b, acc) ==
  IF i = 0 THEN acc
  ELSE LET d == FieldPrime[i] - y[i] - b IN
       FieldSub(y, i - 1, IF d < 0 THEN 1 ELSE 0,
                [acc EXCEPT ![i] = IF d < 0 THEN d + 256 ELSE d])

FieldNeg(y) == FieldSub(y, 32, 0, y)

IsOdd(y) == y[Len(y)] % 2 = 1

\* The curve points the model knows: the points of PointTable and their
\* negations.  Every other (x, y) an action supplies is off the curve.
OnCurve(x, y) ==
  \E i \in 1..Len(PointTable) :
    /\ PointTable[i].x = x
    /\ y \in {PointTable[i].y, FieldNeg(PointTable[i].y)}

IsXCoordinate(x) == \E i \in 1..Len(PointTable) : PointTable[i].x = x

PointOf(i) == [x |-> PointTable[i].x, odd |-> IsOdd(PointTable[i].y)]

\* SEC1 encodings of the public point of SecretKeyTable[i].
Uncompressed(i) == <<4>> \o PointTable[i].x \o PointTable[i].y
Compressed(i) == <<IF IsOdd(PointTable[i].y) THEN 3 ELSE 2>> \o PointTable[i].x

\* Message::from_slice: any 32 bytes.
Message_from_slice(msg) ==
  IF Len(msg) = MessageSize THEN RustOk(msg) ELSE RustErr

\* SecretKey::from_slice: 32 bytes that are a scalar in 1..n-1.
SecretKey_from_slice(ctx, sk) ==
  IF /\ Len(sk) = SecretKeySize
     /\ sk # Rep(0, SecretKeySize)
     /\ LessThan(sk, CurveOrder)
  THEN RustOk(sk) ELSE RustErr

\* PublicKey::from_slice: a compressed (02/03), uncompressed (04) or hybrid
\* (06/07) SEC1 point that lies on the curve.
PublicKey_from_slice(ctx, pk) ==
  IF Len(pk) = CompressedPublicKeySize /\ pk[1] \in {2, 3}
  THEN LET x == SubSeq(pk, 2, 33) IN
       IF IsXCoordinate(x) THEN RustOk([x |-> x, odd |-> pk[1] = 3])
       ELSE RustErr
  ELSE IF Len(pk) = UncompressedPublicKeySize /\ pk[1] \in {4, 6, 7}
  THEN LET x == SubSeq(pk, 2, 33)
           y == SubSeq(pk, 34, 65) IN
       IF /\ OnCurve(x, y)
          /\ pk[1] = 6 => ~IsOdd(y)
          /\ pk[1] = 7 => IsOdd(y)
       THEN RustOk([x |-> x, odd |-> IsOdd(y)])
       ELSE RustErr
  ELSE RustErr

\* Secp256k1::sign on a parsed message and key: the key's signature of the digest.
Secp256k1_sign(ctx, msg, sk) ==
  LET i == CHOOSE i \in 1..Len(SecretKeyTable) : SecretKeyTable[i] = sk
      j == CHOOSE j \in 1..Len(DigestTable) : DigestTable[j] = msg
  IN  RustOk(SignatureTable[i][j])

\* A 33-byte buffer (a zero byte, then the 32 bytes of the scalar) with the
\* leading zero bytes a positive DER integer does not need removed.
RECURSIVE DerTrim(_)
DerTrim(b) ==
  IF Len(b) > 1 /\ b[1] = 0 /\ b[2] < 128 THEN DerTrim(Tail(b)) ELSE b

DerInteger(v) == LET b == DerTrim(<<0>> \o v) IN <<2, Len(b)>> \o b

\* Signature::serialize_der: SEQUENCE { INTEGER r, INTEGER s }.
Signature_serialize_der(ctx, sig) ==
  LET body == DerInteger(sig.r) \o DerInteger(sig.s) IN
  <<48, Len(body)>> \o body

\* Signature::serialize_compact: r and s, 32 bytes each.
Signature_serialize_compact(ctx, sig) == sig.r \o sig.s

DerFail == [ok |-> FALSE]

\* The big-endian value of bytes b, held at 65536 once it is that large (no
\* byte string of the model is that long).
RECURSIVE BigEndian(_, _)
BigEndian(b, acc) ==
  IF b = <<>> THEN acc
  ELSE BigEndian(Tail(b), IF acc * 256 + b[1] > 65536 THEN 65536
                          ELSE acc * 256 + b[1])

\* A DER length at position p of sig: short form, or the shortest long form.
DerReadLen(sig, p) ==
  IF p > Len(sig) THEN DerFail
  ELSE LET b1 == sig[p] IN
       IF b1 = 255 THEN DerFail
       ELSE IF b1 < 128 THEN [ok |-> TRUE, len |-> b1, next |-> p + 1]
       ELSE IF b1 = 128 THEN DerFail
       ELSE LET lenleft == b1 - 128 IN
            IF lenleft > Len(sig) - p THEN DerFail
            ELSE IF sig[p + 1] = 0 THEN DerFail
            ELSE IF lenleft > 8 THEN DerFail
            ELSE LET v == BigEndian(SubSeq(sig, p + 1, p + lenleft), 0) IN
                 IF v < 128 THEN DerFail
                 ELSE [ok |-> TRUE, len |-> v, next |-> p + lenleft + 1]

\* A DER INTEGER at position p of sig, as a scalar: a negative integer, one of
\* more than 32 bytes, or one not below the order parses as the scalar zero.
DerParseInteger(sig, p) ==
  IF p > Len(sig) \/ sig[p] # 2 THEN DerFail
  ELSE LET l == DerReadLen(sig, p + 1) IN
       IF ~l.ok THEN DerFail
       ELSE IF l.len = 0 \/ l.next + l.len > Len(sig) + 1 THEN DerFail
       ELSE IF sig[l.next] = 0 /\ l.len > 1 /\ sig[l.next + 1] < 128 THEN DerFail
       ELSE IF sig[l.next] = 255 /\ l.len > 1 /\ sig[l.next + 1] >= 128 THEN DerFail
       ELSE LET negative == sig[l.next] >= 128
                q == IF sig[l.next] = 0 THEN l.next + 1 ELSE l.next
                rlen == IF sig[l.next] = 0 THEN l.len - 1 ELSE l.len
                padded == Rep(0, 32 - rlen) \o SubSeq(sig, q, q + rlen - 1)
                overflow == negative \/ rlen > 32 \/ ~LessThan(padded, CurveOrder)
            IN  [ok |-> TRUE,
                 val |-> IF overflow THEN Rep(0, 32) ELSE padded,
                 next |-> q + rlen]

\* Signature::from_der: strict DER, SEQUENCE { INTEGER r, INTEGER s } and
\* nothing after it.
Signature_from_der(ctx, sig) ==
  IF Len(sig) = 0 \/ sig[1] # 48 THEN RustErr
  ELSE LET l == DerReadLen(sig, 2) IN
       IF ~l.ok THEN RustErr
       ELSE IF l.next + l.len # Len(sig) + 1 THEN RustErr
       ELSE LET r == DerParseInteger(sig, l.next) IN
            IF ~r.ok THEN RustErr
            ELSE LET s == DerParseInteger(sig, r.next) IN
                 IF ~s.ok THEN RustErr
                 ELSE IF s.next # Len(sig) + 1 THEN RustErr
                 ELSE RustOk([r |-> r.val, s |-> s.val])

\* Secp256k1::verify on parsed values: Ok exactly for the signature the
\* backend makes of this digest under the secret key of this point.
Secp256k1_verify(ctx, msg, sig, pk) ==
  IF \E i \in 1..Len(SecretKeyTable), j \in 1..Len(DigestTable) :
       /\ PointOf(i) = pk
       /\ DigestTable[j] = msg
       /\ SignatureTable[i][j] = sig
  THEN RustOk(TRUE) ELSE RustErr

(***************************************************************************)
(* ECDSASecp256k1                                                          *)
(***************************************************************************)
\* ECDSASecp256k1::new
ECDSASecp256k1_new == [ctx |-> "Secp256k1"]

\* ECDSASecp256k1::sign, had it serialized with serialize_compact.
ECDSASecp256k1_sign_compact(self, msg, sk) ==
  LET k == SecretKey_from_slice(self.ctx, sk) IN
  IF ~k.ok THEN Panicked
  ELSE LET m == Message_from_slice(msg) IN
       IF ~m.ok THEN Panicked
       ELSE LET s == Secp256k1_sign(self.ctx, m.v, k.v) IN
            IF ~s.ok THEN Panicked
            ELSE Returned(Signature_serialize_compact(self.ctx, s.v))

\* ECDSASecp256k1::sign, had it ended in unwrap_or_default instead of
\* unwrapping each step: an empty signature where a step fails.
ECDSASecp256k1_sign_or_default(self, msg, sk) ==
  LET k == SecretKey_from_slice(self.ctx, sk) IN
  IF ~k.ok THEN Returned(<<>>)
  ELSE LET m == Message_from_slice(msg) IN
       IF ~m.ok THEN Returned(<<>>)
       ELSE LET s == Secp256k1_sign(self.ctx, m.v, k.v) IN
            IF ~s.ok THEN Returned(<<>>)
            ELSE Returned(Signature_serialize_der(self.ctx, s.v))

\* Lines 22-27.
ECDSASecp256k1_sign(self, msg, sk) ==
  LET k == SecretKey_from_slice(self.ctx, sk) IN
  IF ~k.ok THEN Panicked
  ELSE LET m == Message_from_slice(msg) IN
       IF ~m.ok THEN Panicked
       ELSE LET s == Secp256k1_sign(self.ctx, m.v, k.v) IN
            IF ~s.ok THEN Panicked
            ELSE Returned(Signature_serialize_der(self.ctx, s.v))

\* ECDSASecp256k1::verify, had it tested each step with is_ok instead of
\* unwrapping it.
ECDSASecp256k1_verify_is_ok(self, msg, sig, pk) ==
  LET m == Message_from_slice(msg) IN
  IF ~m.ok THEN Returned(FALSE)
  ELSE LET p == PublicKey_from_slice(self.ctx, pk) IN
       IF ~p.ok THEN Returned(FALSE)
       ELSE LET s == Signature_from_der(self.ctx, sig) IN
            IF ~s.ok THEN Returned(FALSE)
            ELSE Returned(Secp256k1_verify(self.ctx, m.v, s.v, p.v).ok)

\* Lines 33-39.
ECDSASecp256k1_verify(self, msg, sig, pk) ==
  LET m == Message_from_slice(msg) IN
  IF ~m.ok THEN Panicked
  ELSE LET p == PublicKey_from_slice(self.ctx, pk) IN
       IF ~p.ok THEN Panicked
       ELSE LET s == Signature_from_der(self.ctx, sig) IN
            IF ~s.ok THEN Panicked
            ELSE Returned(Secp256k1_verify(self.ctx, m.v, s.v, p.v).ok)

(***************************************************************************)
(* The ring backend, as the RSA signer uses it.                            *)
(***************************************************************************)
\* The size of the key of tests::test_rsa (rsa-2048-private-key.pk8).
ModulusBits == 2048

\* Distinct RSA keys, and distinct salts the random source can return.
NumRsaKeys == 2
NumSalts == 2

\* The modulus of key k, big-endian: ModulusBits bits, odd.
Modulus(k) ==
  [i \in 1..(ModulusBits \div 8) |->
     IF i = 1 THEN 255 - k
     ELSE IF i = ModulusBits \div 8 THEN 2 * k + 1
     ELSE (31 * i + 7 * k) % 256]

\* The parsed key pair RsaKeyPair::from_pkcs8 returns for the blob of key k:
\* a handle on the backend's key, with modulus n and public exponent e.
RsaKeyPair_from_pkcs8(k) == [key |-> k]

RsaKeyPair_n(key) == Modulus(key.key)

RsaKeyPair_e(key) == <<1, 0, 1>>

\* RsaKeyPair::public_modulus_len
public_modulus_len(key) == Len(RsaKeyPair_n(key))

\* DER, as ring writes and reads the public key.
RingDerLength(n) ==
  IF n < 128 THEN <<n>>
  ELSE IF n < 256 THEN <<129, n>>
  ELSE <<130, n \div 256, n % 256>>

RingDerPositiveInteger(v) ==
  LET b == IF v[1] >= 128 THEN <<0>> \o v ELSE v IN
  <<2>> \o RingDerLength(Len(b)) \o b

\* RsaKeyPair::public_key: the DER of RSAPublicKey ::= SEQUENCE { n, e }.
RsaKeyPair_public_key(key) ==
  LET body == RingDerPositiveInteger(RsaKeyPair_n(key))
                \o RingDerPositiveInteger(RsaKeyPair_e(key)) IN
  <<48>> \o RingDerLength(Len(body)) \o body

\* A DER length at position p of b: short form, 0x81 or 0x82, each minimal.
RingReadLength(b, p) ==
  IF p > Len(b) THEN DerFail
  ELSE IF b[p] < 128 THEN [ok |-> TRUE, len |-> b[p], next |-> p + 1]
  ELSE IF b[p] = 129
  THEN IF p + 1 > Len(b) \/ b[p + 1] < 128 THEN DerFail
       ELSE [ok |-> TRUE, len |-> b[p + 1], next |-> p + 2]
  ELSE IF b[p] = 130
  THEN IF p + 2 > Len(b) \/ b[p + 1] = 0 THEN DerFail
       ELSE [ok |-> TRUE, len |-> b[p + 1] * 256 + b[p + 2], next |-> p + 3]
  ELSE DerFail

\* A positive DER INTEGER at position p of b, without its sign byte.
RingReadPositiveInteger(b, p) ==
  IF p > Len(b) \/ b[p] # 2 THEN DerFail
  ELSE LET l == RingReadLength(b, p + 1) IN
       IF ~l.ok THEN DerFail
       ELSE IF l.len = 0 \/ l.next + l.len > Len(b) + 1 THEN DerFail
       ELSE IF b[l.next] >= 128 THEN DerFail
       ELSE IF b[l.next] = 0
       THEN IF l.len = 1 \/ b[l.next + 1] < 128 THEN DerFail
            ELSE [ok |-> TRUE, next |-> l.next + l.len,
                  val |-> SubSeq(b, l.next + 1, l.next + l.len - 1)]
       ELSE [ok |-> TRUE, next |-> l.next + l.len,
             val |-> SubSeq(b, l.next, l.next + l.len - 1)]

\* The (n, e) a public key byte string encodes, if it is the DER of one.
ParseRsaPublicKey(pk) ==
  IF Len(pk) = 0 \/ pk[1] # 48 THEN RustErr
  ELSE LET l == RingReadLength(pk, 2) IN
       IF ~l.ok THEN RustErr
       ELSE IF l.next + l.len # Len(pk) + 1 THEN RustErr
       ELSE LET n == RingReadPositiveInteger(pk, l.next) IN
            IF ~n.ok THEN RustErr
            ELSE LET e == RingReadPositiveInteger(pk, n.next) IN
                 IF ~e.ok THEN RustErr
                 ELSE IF e.next # Len(pk) + 1 THEN RustErr
                 ELSE RustOk([n |-> n.val, e |-> e.val])

RECURSIVE BitLength(_)
BitLength(b) == IF b = 0 THEN 0 ELSE 1 + BitLength(b \div 2)

BitsOf(v) == (Len(v) - 1) * 8 + BitLength(v[1])

\* The signing encodings ring::signature::RSA_PKCS1_SHA256 .. RSA_PSS_SHA512.
RSA_PKCS1_SHA256 == [padding |-> "PKCS1", digest |-> "SHA256"]
RSA_PKCS1_SHA384 == [padding |-> "PKCS1", digest |-> "SHA384"]
RSA_PKCS1_SHA512 == [padding |-> "PKCS1", digest |-> "SHA512"]
RSA_PSS_SHA256 == [padding |-> "PSS", digest |-> "SHA256"]
RSA_PSS_SHA384 == [padding |-> "PSS", digest |-> "SHA384"]
RSA_PSS_SHA512 == [padding |-> "PSS", digest |-> "SHA512"]

\* The verification parameters ring::signature::RSA_PKCS1_2048_8192_SHA256 ..
\* RSA_PSS_2048_8192_SHA512.
RsaParameters(padding, digest) ==
  [padding |-> padding, digest |-> digest, min_bits |-> 2048, max_bits |-> 8192]

RSA_PKCS1_2048_8192_SHA256 == RsaParameters("PKCS1", "SHA256")
RSA_PKCS1_2048_8192_SHA384 == RsaParameters("PKCS1", "SHA384")
RSA_PKCS1_2048_8192_SHA512 == RsaParameters("PKCS1", "SHA512")
RSA_PSS_2048_8192_SHA256 == RsaParameters("PSS", "SHA256")
RSA_PSS_2048_8192_SHA384 == RsaParameters("PSS", "SHA384")
RSA_PSS_2048_8192_SHA512 == RsaParameters("PSS", "SHA512")

DigestLength(digest) ==
  CASE digest = "SHA256" -> 32 [] digest = "SHA384" -> 48 [] digest = "SHA512" -> 64

\* The digest of msg, with the salt for PSS: an ideal hash, one value per
\* (algorithm, salt, message).
IdealDigest(digest, salt, msg) == <<DigestLength(digest), salt, Len(msg)>> \o msg

\* The encoded message of k bytes: EMSA-PKCS1-v1_5 (00 01 FF.. 00 T) or
\* EMSA-PSS (salted, H, trailer BC).  Its first byte is below 128.
EncodedMessage(enc, salt, msg, k) ==
  IF enc.padding = "PKCS1"
  THEN LET t == IdealDigest(enc.digest, 0, msg) IN
       <<0, 1>> \o Rep(255, k - 3 - Len(t)) \o <<0>> \o t
  ELSE LET h == IdealDigest(enc.digest, salt, msg) IN
       <<salt>> \o Rep(0, k - 2 - Len(h)) \o h \o <<188>>

\* The RSA permutation of key n on byte strings below n and its inverse
\* (m ^ d mod n and s ^ e mod n): keyed, one-to-one, first byte kept.
PrivateOp(n, m) == [i \in 1..Len(m) |-> IF i = 1 THEN m[i] ELSE (m[i] + n[i]) % 256]
PublicOp(n, s) == [i \in 1..Len(s) |-> IF i = 1 THEN s[i] ELSE (s[i] - n[i]) % 256]

\* RsaKeyPair::sign(encoding, rng, msg, signature): the result and the
\* signature buffer afterwards.  rng is what the call meets in its
\* environment: rng.ok, whether SystemRandom delivers; rng.salt, the salt it
\* delivers; rng.fault, whether the private-key operation fails its
\* consistency check.
RsaKeyPair_sign(key, enc, rng, msg, signature) ==
  IF Len(signature) # public_modulus_len(key)
  THEN [res |-> RustErr, signature |-> signature]
  ELSE IF enc.padding = "PSS" /\ ~rng.ok
  THEN [res |-> RustErr, signature |-> signature]
  ELSE LET em == EncodedMessage(enc, rng.salt, msg, Len(signature)) IN
       IF rng.fault THEN [res |-> RustErr, signature |-> em]
       ELSE [res |-> RustOk(TRUE), signature |-> PrivateOp(RsaKeyPair_n(key), em)]

\* ring::signature::verify(parameters, public_key, msg, sig)
ring_verify(params, public_key, msg, sig) ==
  LET key == ParseRsaPublicKey(public_key) IN
  IF ~key.ok THEN RustErr
  ELSE IF BitsOf(key.v.n) < params.min_bits \/ BitsOf(key.v.n) > params.max_bits
  THEN RustErr
  ELSE IF key.v.n[Len(key.v.n)] % 2 = 0 \/ key.v.e[Len(key.v.e)] % 2 = 0
  THEN RustErr
  ELSE IF Len(sig) # Len(key.v.n) THEN RustErr
  ELSE IF ~LessThan(sig, key.v.n) THEN RustErr
  ELSE LET m == PublicOp(key.v.n, sig) IN
       IF m = EncodedMessage(params, m[1], msg, Len(m))
       THEN RustOk(TRUE) ELSE RustErr

(***************************************************************************)
(* PaddingAlg and Rsa                                                      *)
(***************************************************************************)
PaddingAlg ==
  {"RSA_PKCS1_SHA256", "RSA_PKCS1_SHA384", "RSA_PKCS1_SHA512",
   "RSA_PSS_SHA256", "RSA_PSS_SHA384", "RSA_PSS_SHA512"}

\* Rsa::fromPKCS8 on the blob of key k.
Rsa_fromPKCS8(k) == [ctx |-> RsaKeyPair_from_pkcs8(k)]

Rsa_public_key(self) == Returned(RsaKeyPair_public_key(self.ctx))

\* The arms of the match in Rsa::sign: the encoding each variant signs with,
\* and whether the arm unwraps the backend's result.
SignEncoding(padAlg) ==
  CASE padAlg = "RSA_PKCS1_SHA256" -> RSA_PKCS1_SHA256
    [] padAlg = "RSA_PKCS1_SHA384" -> RSA_PKCS1_SHA384
    [] padAlg = "RSA_PKCS1_SHA512" -> RSA_PKCS1_SHA512
    [] padAlg = "RSA_PSS_SHA256" -> RSA_PSS_SHA256
    [] padAlg = "RSA_PSS_SHA384" -> RSA_PSS_SHA384
    [] padAlg = "RSA_PSS_SHA512" -> RSA_PSS_SHA512

SignUnwraps(padAlg) == padAlg = "RSA_PKCS1_SHA256"

\* Rsa::sign, had it started from Vec::new().
Rsa_sign_buffer_empty(self) == <<>>

\* Line 75: the zeroed buffer the signature is written into.
Rsa_sign_buffer(self) == Rep(0, public_modulus_len(self.ctx))

\* Lines 76-112, on the buffer of line 75.
Rsa_sign_into(self, padAlg, msg, rng, signature) ==
  LET out == RsaKeyPair_sign(self.ctx, SignEncoding(padAlg), rng, msg, signature) IN
  IF SignUnwraps(padAlg) /\ ~out.res.ok THEN Panicked
  ELSE Returned(out.signature)

Rsa_sign(self, padAlg, msg, rng) ==
  Rsa_sign_into(self, padAlg, msg, rng, Rsa_sign_buffer(self))

\* The match in Rsa::verify, had its PSS arms named the PKCS1 parameters.
VerifyParameters_crossed(padAlg) ==
  CASE padAlg = "RSA_PKCS1_SHA256" -> RSA_PKCS1_2048_8192_SHA256
    [] padAlg = "RSA_PKCS1_SHA384" -> RSA_PKCS1_2048_8192_SHA384
    [] padAlg = "RSA_PKCS1_SHA512" -> RSA_PKCS1_2048_8192_SHA512
    [] padAlg = "RSA_PSS_SHA256" -> RSA_PKCS1_2048_8192_SHA256
    [] padAlg = "RSA_PSS_SHA384" -> RSA_PKCS1_2048_8192_SHA384
    [] padAlg = "RSA_PSS_SHA512" -> RSA_PKCS1_2048_8192_SHA512

\* The arms of the match in Rsa::verify.
VerifyParameters(padAlg) ==
  CASE padAlg = "RSA_PKCS1_SHA256" -> RSA_PKCS1_2048_8192_SHA256
    [] padAlg = "RSA_PKCS1_SHA384" -> RSA_PKCS1_2048_8192_SHA384
    [] padAlg = "RSA_PKCS1_SHA512" -> RSA_PKCS1_2048_8192_SHA512
    [] padAlg = "RSA_PSS_SHA256" -> RSA_PSS_2048_8192_SHA256
    [] padAlg = "RSA_PSS_SHA384" -> RSA_PSS_2048_8192_SHA384
    [] padAlg = "RSA_PSS_SHA512" -> RSA_PSS_2048_8192_SHA512

\* Rsa::verify, had it unwrapped the backend's result.
Rsa_verify_unwrap(self, padAlg, msg, sig, pk) ==
  IF ring_verify(VerifyParameters(padAlg), pk, msg, sig).ok
  THEN Returned(TRUE) ELSE Panicked

\* Lines 115-147.
Rsa_verify(self, padAlg, msg, sig, pk) ==
  Returned(ring_verify(VerifyParameters(padAlg), pk, msg, sig).ok)

(***************************************************************************)
(* The arguments the callers supply.  The state holds a name for each      *)
(* byte string; the operators below give the bytes a name stands for.      *)
(***************************************************************************)
NumSecretKeys == 2
NumDigests == 2
MaxMsgLen == 1
NumThreads == 2

DerOf(i, j) == Signature_serialize_der("Secp256k1", SignatureTable[i][j])

\* Digests: well-formed ones, and one byte short and one byte long.
EcdsaMessages ==
  {[digest |-> j] : j \in 1..NumDigests} \cup {[bytes |-> 31], [bytes |-> 33]}

MessageBytes ==
  [m \in EcdsaMessages |->
     IF "digest" \in DOMAIN m THEN DigestTable[m.digest] ELSE Rep(205, m.bytes)]

\* Secret keys: valid scalars; zero; the group order; 31 and 33 bytes.
EcdsaSecretKeys ==
  {[key |-> i] : i \in 1..NumSecretKeys}
    \cup {[bad |-> b] : b \in {"zero", "order", "31 bytes", "33 bytes"}}

SecretKeyBytes ==
  [k \in EcdsaSecretKeys |->
     IF "key" \in DOMAIN k THEN SecretKeyTable[k.key]
     ELSE CASE k.bad = "zero" -> Rep(0, 32)
            [] k.bad = "order" -> CurveOrder
            [] k.bad = "31 bytes" -> SubSeq(SecretKeyTable[1], 1, 31)
            [] k.bad = "33 bytes" -> SecretKeyTable[1] \o <<0>>]

\* Well-formed public keys: each key's point in both encodings, the first
\* key's point in hybrid form, and its negation.
EcdsaPublicKeys ==
  {[key |-> i, form |-> f] :
     i \in 1..NumSecretKeys, f \in {"uncompressed", "compressed"}}
    \cup {[key |-> 1, form |-> "hybrid"], [key |-> 1, form |-> "negated"]}

\* Public keys that decode to no curve point: empty, truncated, an unknown
\* prefix, a y off the curve, an x with no point.
EcdsaBadPublicKeys ==
  {[bad |-> b] :
     b \in {"empty", "truncated", "prefix 05", "off curve", "no point"}}

PublicKeyBytes ==
  [p \in EcdsaPublicKeys \cup EcdsaBadPublicKeys |->
     IF "key" \in DOMAIN p
     THEN CASE p.form = "uncompressed" -> Uncompressed(p.key)
            [] p.form = "compressed" -> Compressed(p.key)
            [] p.form = "hybrid" ->
                 [Uncompressed(p.key) EXCEPT
                    ![1] = IF IsOdd(PointTable[p.key].y) THEN 7 ELSE 6]
            [] p.form = "negated" ->
                 [Compressed(p.key) EXCEPT
                    ![1] = IF IsOdd(PointTable[p.key].y) THEN 2 ELSE 3]
     ELSE CASE p.bad = "empty" -> <<>>
            [] p.bad = "truncated" -> SubSeq(Uncompressed(1), 1, 64)
            [] p.bad = "prefix 05" -> [Uncompressed(1) EXCEPT ![1] = 5]
            [] p.bad = "off curve" -> FlipBit(Uncompressed(1), 65, 0)
            [] p.bad = "no point" -> <<2>> \o Rep(0, 32)]

\* "hello, world", the message of tests::test_rsa.
Hello == <<104, 101, 108, 108, 111, 44, 32, 119, 111, 114, 108, 100>>

\* Messages: "hello, world", and 0..MaxMsgLen bytes "a".
RsaMessages == {[text |-> "hello, world"]} \cup {[a |-> n] : n \in 0..MaxMsgLen}

RsaMessageBytes ==
  [m \in RsaMessages |-> IF "text" \in DOMAIN m THEN Hello ELSE Rep(97, m.a)]

Rngs ==
  {r \in [ok : BOOLEAN, salt : 1..NumSalts, fault : BOOLEAN] : r.ok \/ r.salt = 1}

RsaPublicKeys == {[key |-> k] : k \in 1..NumRsaKeys}

\* Public keys that are not the DER of an RSA public key: empty, truncated,
\* a wrong outer tag.
RsaBadPublicKeys == {[bad |-> b] : b \in {"empty", "truncated", "wrong tag"}}

RsaPublicKeyBytes ==
  [p \in RsaPublicKeys \cup RsaBadPublicKeys |->
     IF "key" \in DOMAIN p
     THEN RsaKeyPair_public_key(RsaKeyPair_from_pkcs8(p.key))
     ELSE LET pk == RsaKeyPair_public_key(RsaKeyPair_from_pkcs8(1)) IN
          CASE p.bad = "empty" -> <<>>
            [] p.bad = "truncated" -> SubSeq(pk, 1, Len(pk) - 1)
            [] p.bad = "wrong tag" -> [pk EXCEPT ![1] = 49]]

(***************************************************************************)
(* The calls.  Every method takes &self: the signer after the call is the  *)
(* signer before it.                                                       *)
(***************************************************************************)
ECDSASecp256k1_after(self) == self

\* Rsa::sign, had it taken &mut self and kept the variant it was called with.
Rsa_after_sign_caching(self, padAlg) == [ctx |-> self.ctx, padAlg |-> padAlg]

Rsa_after_sign(self, padAlg) == self

Rsa_after(self) == self

Init ==
  /\ secp = ECDSASecp256k1_new
  /\ rsa \in {Rsa_fromPKCS8(k) : k \in 1..NumRsaKeys}
  /\ built = [secp |-> secp, rsa |-> rsa]
  /\ produced = NoCall
  /\ checked = NoCall
  /\ pc = [t \in 1..NumThreads |-> "idle"]
  /\ local = [t \in 1..NumThreads |-> NoCall]
  /\ ret = [t \in 1..NumThreads |-> NoCall]

\* What the last sign call handed back, from its arguments.
ProducedOutcome ==
  IF produced.op = "ecdsa_sign"
  THEN ECDSASecp256k1_sign(secp, MessageBytes[produced.msg],
                           SecretKeyBytes[produced.sk])
  ELSE Rsa_sign(rsa, produced.padAlg, RsaMessageBytes[produced.msg], produced.rng)

\* The signature the last sign call returned, and that signature with bit
\* k of byte i inverted.
Produced == [from |-> "sign"]

Flipped(i, k) == [from |-> "sign", byte |-> i, bit |-> k]

\* The bytes of a signature made from signed, the bytes sign returned.
FromSign(s, signed) ==
  IF "byte" \in DOMAIN s THEN FlipBit(signed, s.byte, s.bit) ELSE signed

\* Other signatures handed to ECDSASecp256k1::verify: the signature of a
\* digest under a key, and byte strings that are not DER (empty, the compact
\* form, a trailing byte).
EcdsaOtherSignatures ==
  {[key |-> i, digest |-> j] : i \in 1..NumSecretKeys, j \in 1..NumDigests}

EcdsaBadSignatures == {[bad |-> b] : b \in {"empty", "compact", "trailing byte"}}

EcdsaSignatureBytes ==
  [s \in EcdsaOtherSignatures \cup EcdsaBadSignatures |->
     IF "key" \in DOMAIN s THEN DerOf(s.key, s.digest)
     ELSE CASE s.bad = "empty" -> <<>>
            [] s.bad = "compact" ->
                 Signature_serialize_compact("Secp256k1", SignatureTable[1][1])
            [] s.bad = "trailing byte" -> DerOf(1, 1) \o <<0>>]

SignatureBytes(s, signed) ==
  IF "from" \in DOMAIN s THEN FromSign(s, signed) ELSE EcdsaSignatureBytes[s]

\* Other signatures handed to Rsa::verify: byte strings of the wrong form
\* for a key of ModulusBits bits (empty, one byte short, not below the
\* modulus).
RsaBadSignatures ==
  {[bad |-> b] : b \in {"empty", "one byte short", "not below modulus"}}

RsaBadSignatureBytes ==
  [s \in RsaBadSignatures |->
     CASE s.bad = "empty" -> <<>>
       [] s.bad = "one byte short" -> Rep(1, ModulusBits \div 8 - 1)
       [] s.bad = "not below modulus" -> Rep(255, ModulusBits \div 8)]

RsaSignatureBytes(s, signed) ==
  IF "from" \in DOMAIN s THEN FromSign(s, signed) ELSE RsaBadSignatureBytes[s]

IsReturned(call) == call.op # "none" /\ call.out.status = "returned"

\* What the state keeps of a sign call's outcome: whether it returned, and
\* the length of the byte string it returned.
Kept(out) ==
  IF out.status = "returned"
  THEN [status |-> "returned", len |-> Len(out.value)]
  ELSE out

\* ECDSASecp256k1::sign(msg, sk).  The signature it returns is
\* ProducedOutcome.value.
EcdsaSign ==
  \E msg \in EcdsaMessages, sk \in EcdsaSecretKeys :
    /\ checked = NoCall
    /\ produced' =
         [op |-> "ecdsa_sign", msg |-> msg, sk |-> sk,
          out |-> Kept(ECDSASecp256k1_sign(secp, MessageBytes[msg],
                                           SecretKeyBytes[sk]))]
    /\ checked' = NoCall
    /\ secp' = ECDSASecp256k1_after(secp)
    /\ UNCHANGED <<rsa, built, pc, local, ret>>

\* ECDSASecp256k1::verify(msg, sig, pk), sig the signature just produced or
\* another byte string.
EcdsaVerify ==
  /\ produced.op = "ecdsa_sign"
  /\ checked = NoCall
  /\ \E signed \in {ProducedOutcome},
        msg \in EcdsaMessages,
        pk \in EcdsaPublicKeys \cup EcdsaBadPublicKeys,
        sig \in (IF IsReturned(produced) THEN {Produced} ELSE {})
                  \cup EcdsaOtherSignatures \cup EcdsaBadSignatures :
       checked' = [op |-> "ecdsa_verify", msg |-> msg, sig |-> sig, pk |-> pk,
                   out |-> ECDSASecp256k1_verify(secp, MessageBytes[msg],
                                                 SignatureBytes(sig, signed.value),
                                                 PublicKeyBytes[pk])]
  /\ secp' = ECDSASecp256k1_after(secp)
  /\ UNCHANGED <<rsa, built, produced, pc, local, ret>>

\* Rsa::sign(padAlg, msg) with msg among msgs, in the environment rng.  The
\* buffer it returns is ProducedOutcome.value.
RsaSignOf(msgs) ==
  \E padAlg \in PaddingAlg, msg \in msgs, rng \in Rngs :
    /\ checked = NoCall
    /\ produced' =
         [op |-> "rsa_sign", padAlg |-> padAlg, msg |-> msg, rng |-> rng,
          out |-> Kept(Rsa_sign(rsa, padAlg, RsaMessageBytes[msg], rng))]
    /\ checked' = NoCall
    /\ rsa' = Rsa_after_sign(rsa, padAlg)
    /\ UNCHANGED <<secp, built, pc, local, ret>>

RsaSign == RsaSignOf(RsaMessages)

\* Rsa::verify(padAlg, msg, sig, pk), sig the buffer Rsa::sign just returned
\* or another byte string.
RsaVerify ==
  /\ produced.op = "rsa_sign"
  /\ IsReturned(produced)
  /\ checked = NoCall
  /\ \E signed \in {ProducedOutcome.value},
        padAlg \in PaddingAlg, msg \in RsaMessages,
        pk \in RsaPublicKeys \cup RsaBadPublicKeys,
        sig \in {Produced} \cup RsaBadSignatures :
       checked' = [op |-> "rsa_verify", padAlg |-> padAlg, msg |-> msg,
                   sig |-> sig, pk |-> pk,
                   out |-> Rsa_verify(rsa, padAlg, RsaMessageBytes[msg],
                                      RsaSignatureBytes(sig, signed),
                                      RsaPublicKeyBytes[pk])]
  /\ rsa' = Rsa_after(rsa)
  /\ UNCHANGED <<secp, built, produced, pc, local, ret>>

\* The caller has read the verdict of the last verify call and goes on to
\* its next call.
Consume ==
  /\ checked # NoCall
  /\ checked' = NoCall
  /\ UNCHANGED <<secp, rsa, built, produced, pc, local, ret>>

Next == EcdsaSign \/ EcdsaVerify \/ RsaSign \/ RsaVerify \/ Consume

Spec == Init /\ [][Next]_vars

(***************************************************************************)
(* Tampering: a signature is verified with one of its bits inverted,       *)
(* against the message it signs and the signer's public key.               *)
(***************************************************************************)
EcdsaVerifyFlipped ==
  /\ produced.op = "ecdsa_sign"
  /\ IsReturned(produced)
  /\ checked = NoCall
  /\ \E signed \in {ProducedOutcome.value} :
     \E i \in 1..Len(signed), k \in 0..7,
        form \in {"uncompressed", "compressed"} :
       LET sig == Flipped(i, k)
           pk == [key |-> produced.sk.key, form |-> form]
       IN  checked' = [op |-> "ecdsa_verify", msg |-> produced.msg,
                       sig |-> sig, pk |-> pk,
                       out |-> ECDSASecp256k1_verify(
                                 secp, MessageBytes[produced.msg],
                                 SignatureBytes(sig, signed),
                                 PublicKeyBytes[pk])]
  /\ secp' = ECDSASecp256k1_after(secp)
  /\ UNCHANGED <<rsa, built, produced, pc, local, ret>>

RsaSignHello == RsaSignOf({[text |-> "hello, world"]})

RsaVerifyFlipped ==
  /\ produced.op = "rsa_sign"
  /\ IsReturned(produced)
  /\ checked = NoCall
  /\ \E signed \in {ProducedOutcome.value},
        pk \in {Rsa_public_key(rsa).value} :
     \E i \in 1..Len(signed), k \in 0..7 :
       LET sig == Flipped(i, k) IN
       checked' = [op |-> "rsa_verify", padAlg |-> produced.padAlg,
                   msg |-> produced.msg, sig |-> sig, pk |-> rsa.ctx,
                   out |-> Rsa_verify(rsa, produced.padAlg,
                                      RsaMessageBytes[produced.msg],
                                      RsaSignatureBytes(sig, signed), pk)]
  /\ rsa' = Rsa_after(rsa)
  /\ UNCHANGED <<secp, built, produced, pc, local, ret>>

NextTamper ==
  EcdsaSign \/ RsaSignHello \/ EcdsaVerifyFlipped \/ RsaVerifyFlipped \/ Consume

SpecTamper == Init /\ [][NextTamper]_vars

(***************************************************************************)
(* Threads sharing the two signers.  A call starts (its arguments are      *)
(* fixed, and Rsa::sign sizes its buffer from the key) and later returns   *)
(* (it reads the signer again and computes its result); calls of other     *)
(* threads may start and return in between.                                *)
(***************************************************************************)
Threads == 1..NumThreads

SharedVariants == {"RSA_PKCS1_SHA256", "RSA_PSS_SHA256"}

GoodRng == [ok |-> TRUE, salt |-> 1, fault |-> FALSE]

Start(t, call) ==
  /\ pc[t] = "idle"
  /\ pc' = [pc EXCEPT ![t] = call.op]
  /\ local' = [local EXCEPT ![t] = call]
  /\ ret' = [ret EXCEPT ![t] = NoCall]
  /\ UNCHANGED <<secp, rsa, built, produced, checked>>

Finish(t, op, out) ==
  /\ pc[t] = op
  /\ pc' = [pc EXCEPT ![t] = "idle"]
  /\ local' = [local EXCEPT ![t] = NoCall]
  /\ ret' = [ret EXCEPT ![t] = [call |-> local[t], out |-> out]]
  /\ UNCHANGED <<built, produced, checked>>

\* The signatures other calls have returned and not yet dropped.
SharedSignatures(op) ==
  {[by |-> ret[u].call, sig |-> ret[u].out.value] :
     u \in {u \in Threads : /\ ret[u] # NoCall
                            /\ ret[u].call.op = op
                            /\ ret[u].out.status = "returned"}}

StartEcdsaSign(t) ==
  \E sk \in {SecretKeyTable[1], Rep(0, 32)} :
    Start(t, [op |-> "ecdsa_sign", msg |-> DigestTable[1], sk |-> sk])

ReturnEcdsaSign(t) ==
  /\ Finish(t, "ecdsa_sign", ECDSASecp256k1_sign(secp, local[t].msg, local[t].sk))
  /\ secp' = ECDSASecp256k1_after(secp)
  /\ rsa' = rsa

StartEcdsaVerify(t) ==
  \E s \in SharedSignatures("ecdsa_sign") :
    Start(t, [op |-> "ecdsa_verify", msg |-> DigestTable[1], sig |-> s.sig,
              pk |-> Uncompressed(1), by |-> s.by])

ReturnEcdsaVerify(t) ==
  /\ Finish(t, "ecdsa_verify",
            ECDSASecp256k1_verify(secp, local[t].msg, local[t].sig, local[t].pk))
  /\ secp' = ECDSASecp256k1_after(secp)
  /\ rsa' = rsa

StartRsaPublicKey(t) == Start(t, [op |-> "rsa_public_key"])

ReturnRsaPublicKey(t) ==
  /\ Finish(t, "rsa_public_key", Rsa_public_key(rsa))
  /\ rsa' = Rsa_after(rsa)
  /\ secp' = secp

StartRsaSign(t) ==
  \E padAlg \in SharedVariants :
    Start(t, [op |-> "rsa_sign", padAlg |-> padAlg, msg |-> Hello,
              signature |-> Rsa_sign_buffer(rsa)])

ReturnRsaSign(t) ==
  /\ Finish(t, "rsa_sign",
            Rsa_sign_into(rsa, local[t].padAlg, local[t].msg, GoodRng,
                          local[t].signature))
  /\ rsa' = Rsa_after_sign(rsa, local[t].padAlg)
  /\ secp' = secp

StartRsaVerify(t) ==
  \E padAlg \in SharedVariants, s \in SharedSignatures("rsa_sign"),
     p \in SharedSignatures("rsa_public_key") :
    Start(t, [op |-> "rsa_verify", padAlg |-> padAlg, msg |-> Hello,
              sig |-> s.sig, pk |-> p.sig, by |-> s.by])

ReturnRsaVerify(t) ==
  /\ Finish(t, "rsa_verify",
            Rsa_verify(rsa, local[t].padAlg, local[t].msg, local[t].sig,
                       local[t].pk))
  /\ rsa' = Rsa_after(rsa)
  /\ secp' = secp

NextShared ==
  \E t \in Threads :
    \/ StartEcdsaSign(t) \/ ReturnEcdsaSign(t)
    \/ StartEcdsaVerify(t) \/ ReturnEcdsaVerify(t)
    \/ StartRsaPublicKey(t) \/ ReturnRsaPublicKey(t)
    \/ StartRsaSign(t) \/ ReturnRsaSign(t)
    \/ StartRsaVerify(t) \/ ReturnRsaVerify(t)

SpecShared == Init /\ [][NextShared]_vars

(***************************************************************************)
(* The claims.                                                             *)
(***************************************************************************)
IsValidSecretKey(sk) == \E i \in 1..Len(SecretKeyTable) : SecretKeyTable[i] = sk

\* The encodings of the public key of secret key sk.
DerivedPublicKeys(sk) ==
  UNION {{Uncompressed(i), Compressed(i)} :
           i \in {i \in 1..Len(SecretKeyTable) : SecretKeyTable[i] = sk}}

\* The bytes of the signature handed to the last ECDSASecp256k1::verify call.
CheckedSignature == SignatureBytes(checked.sig, ProducedOutcome.value)

\* The byte strings of the last ECDSASecp256k1::verify call.
EcdsaChecked ==
  [msg |-> MessageBytes[checked.msg], sig |-> CheckedSignature,
   pk |-> PublicKeyBytes[checked.pk]]

\* The last verify call was handed the signature the last sign call returned.
VerifiesProduced == IsReturned(produced) /\ checked.sig = Produced

OwnPublicKey == RsaKeyPair_public_key(built.rsa.ctx)

\* C1: ECDSA round trip.  sign returns for every valid secret key and every
\* 32-byte digest, and verify of that digest, the returned signature and the
\* key's public key, compressed or uncompressed, returns true.
C1_EcdsaRoundTrip ==
  /\ ( /\ produced.op = "ecdsa_sign"
       /\ Len(MessageBytes[produced.msg]) = MessageSize
       /\ IsValidSecretKey(SecretKeyBytes[produced.sk]) ) => IsReturned(produced)
  /\ ( /\ checked.op = "ecdsa_verify"
       /\ VerifiesProduced
       /\ MessageBytes[checked.msg] = MessageBytes[produced.msg]
       /\ PublicKeyBytes[checked.pk]
            \in DerivedPublicKeys(SecretKeyBytes[produced.sk]) )
       => checked.out = Returned(TRUE)

\* The scenario of tests::test_secp256k1, with the compressed public key.
C1_Witness ==
  /\ checked.op = "ecdsa_verify"
  /\ VerifiesProduced
  /\ SecretKeyBytes[produced.sk] = SecretKeyTable[1]
  /\ MessageBytes[produced.msg] = Rep(205, 32)
  /\ MessageBytes[checked.msg] = MessageBytes[produced.msg]
  /\ PublicKeyBytes[checked.pk] = Compressed(1)
  /\ checked.out = Returned(TRUE)

\* C2: RSA round trip.  For each variant, verify of the message, the buffer
\* sign returned for it under that variant, and the signer's public key
\* returns true.
C2_RsaRoundTrip ==
  ( /\ checked.op = "rsa_verify"
    /\ VerifiesProduced
    /\ checked.padAlg = produced.padAlg
    /\ checked.msg = produced.msg
    /\ RsaPublicKeyBytes[checked.pk] = OwnPublicKey )
    => checked.out = Returned(TRUE)

\* The round trip of C2 where the backend signed without error: the variant
\* selects the same scheme on both paths.
RsaRoundTripWhenSigned ==
  ( /\ checked.op = "rsa_verify"
    /\ VerifiesProduced
    /\ produced.rng.ok /\ ~produced.rng.fault
    /\ checked.padAlg = produced.padAlg
    /\ checked.msg = produced.msg
    /\ RsaPublicKeyBytes[checked.pk] = OwnPublicKey )
    => checked.out = Returned(TRUE)

\* C3: whatever Rsa::sign returns is a valid signature of the message under
\* the variant and the key: a failure of the backend aborts the call.
C3_SignFailureSurfaced ==
  (produced.op = "rsa_sign" /\ IsReturned(produced))
    => Rsa_verify(rsa, produced.padAlg, RsaMessageBytes[produced.msg],
                  ProducedOutcome.value, OwnPublicKey) = Returned(TRUE)

\* C4: the six variants select six distinct (padding, hash) pairs on each
\* path, and verifying what sign returned under another variant, with the
\* same message and the signer's public key, returns false.
C4_PaddingMismatchIsFalse ==
  /\ \A v1, v2 \in PaddingAlg :
       v1 # v2 =>
         /\ SignEncoding(v1) # SignEncoding(v2)
         /\ <<VerifyParameters(v1).padding, VerifyParameters(v1).digest>>
              # <<VerifyParameters(v2).padding, VerifyParameters(v2).digest>>
  /\ ( /\ checked.op = "rsa_verify"
       /\ VerifiesProduced
       /\ checked.padAlg # produced.padAlg
       /\ checked.msg = produced.msg
       /\ RsaPublicKeyBytes[checked.pk] = OwnPublicKey )
       => checked.out = Returned(FALSE)

\* "hello, world" signed with PKCS1-SHA256 and verified with PSS-SHA256.
C4_Witness ==
  /\ checked.op = "rsa_verify"
  /\ VerifiesProduced
  /\ produced.rng.ok /\ ~produced.rng.fault
  /\ produced.padAlg = "RSA_PKCS1_SHA256"
  /\ checked.padAlg = "RSA_PSS_SHA256"
  /\ RsaMessageBytes[produced.msg] = Hello
  /\ RsaMessageBytes[checked.msg] = Hello
  /\ RsaPublicKeyBytes[checked.pk] = OwnPublicKey
  /\ checked.out = Returned(FALSE)

\* The signature is DER and the public key decodes to a curve point.
EcdsaWellFormed(call) ==
  /\ Signature_from_der("Secp256k1", call.sig).ok
  /\ PublicKey_from_slice("Secp256k1", call.pk).ok

\* The signature is the one of the digest under the key of the public key.
EcdsaAuthentic(call) ==
  \E i \in 1..Len(SecretKeyTable), j \in 1..Len(DigestTable) :
    /\ call.msg = DigestTable[j]
    /\ call.sig = DerOf(i, j)
    /\ PublicKey_from_slice("Secp256k1", call.pk).v = PointOf(i)

\* C5: on a 32-byte digest, ECDSA verify returns a boolean when the signature
\* is DER and the public key decodes (true only for the signature of that
\* digest under that key), and aborts, never returning false, when either
\* does not parse.
C5_VerifySeparatesErrors ==
  (checked.op = "ecdsa_verify" /\ Len(MessageBytes[checked.msg]) = MessageSize)
    => LET call == EcdsaChecked IN
       IF EcdsaWellFormed(call)
       THEN /\ checked.out \in {Returned(TRUE), Returned(FALSE)}
            /\ checked.out = Returned(TRUE) => EcdsaAuthentic(call)
       ELSE checked.out = Panicked

\* A compact (not DER) signature with a good digest and public key.
C5_Witness ==
  /\ checked.op = "ecdsa_verify"
  /\ MessageBytes[checked.msg] = DigestTable[1]
  /\ PublicKeyBytes[checked.pk] = Uncompressed(1)
  /\ CheckedSignature
       = Signature_serialize_compact("Secp256k1", SignatureTable[1][1])
  /\ checked.out = Panicked

\* C6: ECDSA sign aborts, returning no signature, on a digest or a secret key
\* that is not 32 bytes and on a secret key that is no scalar in 1..n-1;
\* ECDSA verify aborts, returning no boolean, on a digest that is not 32 bytes.
C6_LengthsRejected ==
  /\ ( /\ produced.op = "ecdsa_sign"
       /\ \/ Len(MessageBytes[produced.msg]) # 32
          \/ Len(SecretKeyBytes[produced.sk]) # 32
          \/ SecretKeyBytes[produced.sk] = Rep(0, 32)
          \/ ~LessThan(SecretKeyBytes[produced.sk], CurveOrder) )
       => produced.out = Panicked
  /\ (checked.op = "ecdsa_verify" /\ Len(MessageBytes[checked.msg]) # 32)
       => checked.out = Panicked

\* A 31-byte digest with the key of tests::test_secp256k1.
C6_Witness ==
  /\ produced.op = "ecdsa_sign"
  /\ Len(MessageBytes[produced.msg]) = 31
  /\ SecretKeyBytes[produced.sk] = SecretKeyTable[1]
  /\ produced.out = Panicked

\* C7: Rsa::verify returns a boolean on a public key that parses, and raises,
\* returning no boolean, on one that does not.
C7_MalformedRaises ==
  checked.op = "rsa_verify"
    => IF ParseRsaPublicKey(RsaPublicKeyBytes[checked.pk]).ok
       THEN checked.out \in {Returned(TRUE), Returned(FALSE)}
       ELSE checked.out = Panicked

\* C8, as claimed: a signature with one bit inverted verifies as false,
\* whichever bit it is.
C8_TamperedIsFalse == checked.op # "none" => checked.out = Returned(FALSE)

\* C8, amended: a signature with one bit inverted never verifies as true.
\* Rsa::verify returns false; ECDSASecp256k1::verify returns false where the
\* copy is still DER and aborts where it is not.
C8_TamperedNeverVerifies ==
  /\ checked.op = "rsa_verify" => checked.out = Returned(FALSE)
  /\ checked.op = "ecdsa_verify"
       => checked.out = IF Signature_from_der("Secp256k1", CheckedSignature).ok
                        THEN Returned(FALSE)
                        ELSE Panicked

\* A bit of r inverted in the signature of tests::test_secp256k1.
C8_Witness ==
  /\ checked.op = "ecdsa_verify"
  /\ SecretKeyBytes[produced.sk] = SecretKeyTable[1]
  /\ MessageBytes[produced.msg] = Rep(205, 32)
  /\ checked.sig.byte = 10
  /\ CheckedSignature # ProducedOutcome.value
  /\ Signature_from_der("Secp256k1", CheckedSignature).ok
  /\ checked.out = Returned(FALSE)

\* C9: every buffer Rsa::sign returns is as long as the modulus of the key,
\* 256 bytes for one of 2048 bits.
C9_SignatureLength ==
  (produced.op = "rsa_sign" /\ IsReturned(produced))
    => /\ produced.out.len = public_modulus_len(built.rsa.ctx)
       /\ produced.out.len = ModulusBits \div 8

\* A PSS signature for which the random source failed.
C9_Witness ==
  /\ produced.op = "rsa_sign"
  /\ produced.padAlg = "RSA_PSS_SHA512"
  /\ ~produced.rng.ok
  /\ IsReturned(produced)
  /\ produced.out.len = 256

\* The result of a verify or public_key call made on the signers as built,
\* with no other call in progress.
Alone(call) ==
  CASE call.op = "rsa_public_key" -> Rsa_public_key(built.rsa)
    [] call.op = "rsa_verify" ->
         Rsa_verify(built.rsa, call.padAlg, call.msg, call.sig, call.pk)
    [] call.op = "ecdsa_verify" ->
         ECDSASecp256k1_verify(built.secp, call.msg, call.sig, call.pk)

\* C10: no call changes a signer, a signer holds nothing but its context or
\* key, and under every interleaving each verify and public_key call returns
\* what it returns alone; a signature made under one variant verifies under
\* that variant whatever variants the calls around it use.
C10_SignersReadOnly ==
  /\ [](/\ secp = built.secp
        /\ rsa = built.rsa
        /\ DOMAIN secp = {"ctx"}
        /\ DOMAIN rsa = {"ctx"}
        /\ \A t \in Threads :
             ret[t] # NoCall =>
               /\ ret[t].call.op \in {"rsa_public_key", "rsa_verify", "ecdsa_verify"}
                    => ret[t].out = Alone(ret[t].call)
               /\ ret[t].call.op = "rsa_verify"
                    => ret[t].out = Returned(ret[t].call.padAlg = ret[t].call.by.padAlg))
  /\ [][secp' = secp /\ rsa' = rsa]_vars

\* A verify returns true while another thread is inside a sign call under a
\* different variant.
C10_Witness ==
  \E t, u \in Threads :
    /\ t # u
    /\ pc[u] = "rsa_sign"
    /\ ret[t] # NoCall
    /\ ret[t].call.op = "rsa_verify"
    /\ ret[t].call.padAlg # local[u].padAlg
    /\ ret[t].out = Returned(TRUE)

====
